---- MODULE Spec2Model ----
(***************************************************************************)
(* Model of src/receipt_splitter_app.py: the Receipt / ReceiptItem data    *)
(* model with its per-person split, and ReceiptParser's normalisation of   *)
(* an expense-analysis response.                                           *)
(*                                                                         *)
(* Numbers.  The program computes with Python floats.  The model computes  *)
(* with exact rationals <<n, d>> (d > 0, lowest terms), so "equal up to    *)
(* floating-point tolerance" in the program is "equal" here.  A pair with  *)
(* d = 0 stands for a raised ZeroDivisionError and is absorbing in every   *)
(* arithmetic operator.                                                    *)
(*                                                                         *)
(* Text.  A Python str is a sequence of one-character strings.             *)
(***************************************************************************)
EXTENDS Integers, Sequences, FiniteSets, TLC

VARIABLES
    receipt,        \* the Receipt object: items, date, restaurant_name, subtotal, tax, tip
    pc,             \* position of parse_textract_response ("idle" outside a parse)
    item_name,      \* local of parse_textract_response (line 127)
    item_price,     \* local of parse_textract_response (line 128)
    item_quantity,  \* local of parse_textract_response (line 129)
    field,          \* loop variable of parse_textract_response (lines 110 and 132)
    ndocs,          \* documents of the response entered so far
    nsummary,       \* summary fields of the response read so far
    nlineitems,     \* line items of the response entered so far
    nfields,        \* fields of the current line item read so far
    has_receipt,    \* st.session_state.receipt is not None
    people,         \* st.session_state.people
    current_step    \* st.session_state.current_step

vars == <<receipt, pc, item_name, item_price, item_quantity, field,
          ndocs, nsummary, nlineitems, nfields, has_receipt, people, current_step>>

session_vars == <<has_receipt, people, current_step>>

parser_vars == <<pc, item_name, item_price, item_quantity, field,
                 ndocs, nsummary, nlineitems, nfields>>

----------------------------------------------------------------------------
(* Bounds of the model *)

MaxItems == 2       \* items added to a receipt in SpecSplit
MaxSubtotal == 3    \* largest stored subtotal drawn in SpecSplit
MaxDocs == 2        \* documents of a response in SpecParse
MaxSummaryFields == 1   \* summary fields of a response in SpecParse
MaxLineItems == 2   \* line items of a response in SpecParse
MaxFields == 3      \* fields of one line item in SpecParse
MaxTextLen == 3     \* longest text over TextChars drawn in SpecText

\* The inputs of SpecSplit: who takes part, what can be ordered (name, price,
\* quantity), and the tax and tip of a receipt.
People == {"Alice", "Bob"}

Menu == {<<"Burger", 2, 1>>, <<"Pizza", 3, 1>>, <<"Drink", 1, 2>>}

Taxes == {0, 1}

Tips == {0, 1}

----------------------------------------------------------------------------
(* Exact arithmetic standing for Python float arithmetic *)

Abs(x) == IF x < 0 THEN -x ELSE x

RECURSIVE GCD(_, _)
GCD(a, b) == IF b = 0 THEN a ELSE GCD(b, a % b)

\* The rational n/d in lowest terms with a positive denominator (d # 0).
Rat(n, d) ==
    LET g == GCD(Abs(n), Abs(d))
        s == IF d < 0 THEN -1 ELSE 1
    IN  <<s * (n \div g), s * (d \div g)>>

ZeroDivisionError == <<0, 0>>

\* float() raising ValueError
ValueError == <<1, 0>>

Raised(x) == x[2] = 0

Num(n) == <<n, 1>>

FAdd(a, b) ==
    IF Raised(a) \/ Raised(b) THEN ZeroDivisionError
    ELSE Rat(a[1] * b[2] + b[1] * a[2], a[2] * b[2])

FMul(a, b) ==
    IF Raised(a) \/ Raised(b) THEN ZeroDivisionError
    ELSE Rat(a[1] * b[1], a[2] * b[2])

\* Python's a / b on floats: raises ZeroDivisionError when b is zero.
FDiv(a, b) ==
    IF Raised(a) \/ Raised(b) \/ b[1] = 0 THEN ZeroDivisionError
    ELSE Rat(a[1] * b[2], a[2] * b[1])

\* a > 0 on a value that is not a raised error
FPos(a) == a[1] > 0

FIsZero(a) == a[2] # 0 /\ a[1] = 0

\* The sum of f over the keys D (used to state the claims)
RECURSIVE SumOver(_, _)
SumOver(f, D) ==
    IF D = {} THEN Num(0)
    ELSE LET k == CHOOSE x \in D : TRUE
         IN  FAdd(f[k], SumOver(f, D \ {k}))

----------------------------------------------------------------------------
(* ReceiptItem *)

Range(s) == {s[i] : i \in 1..Len(s)}

\* "person in self.assigned_to"
In(person, list) == \E i \in 1..Len(list) : list[i] = person

\* list.remove(x): removes the first occurrence of x
RemoveFirst(list, x) ==
    LET i == CHOOSE k \in 1..Len(list) :
                 list[k] = x /\ \A j \in 1..(k - 1) : list[j] # x
    IN  SubSeq(list, 1, i - 1) \o SubSeq(list, i + 1, Len(list))

ReceiptItem(name, price, quantity) ==
    [name |-> name, price |-> price, quantity |-> quantity, assigned_to |-> <<>>]

assign_to_unchecked(self, person) ==
    [self EXCEPT !.assigned_to = Append(@, person)]

assign_to(self, person) ==
    IF ~In(person, self.assigned_to)
    THEN [self EXCEPT !.assigned_to = Append(@, person)]
    ELSE self

unassign_from(self, person) ==
    IF In(person, self.assigned_to)
    THEN [self EXCEPT !.assigned_to = RemoveFirst(@, person)]
    ELSE self

price_per_person_whole(self) == self.price

price_per_person_unguarded(self) == FDiv(self.price, Num(Len(self.assigned_to)))

price_per_person(self) ==
    IF self.assigned_to = <<>> THEN Num(0)
    ELSE FDiv(self.price, Num(Len(self.assigned_to)))

----------------------------------------------------------------------------
(* Text and the parsing of numbers *)

Digits == {"0", "1", "2", "3", "4", "5", "6", "7", "8", "9"}

IsDigit(c) == c \in Digits

DigitValue(c) ==
    CASE c = "0" -> 0 [] c = "1" -> 1 [] c = "2" -> 2 [] c = "3" -> 3 [] c = "4" -> 4
      [] c = "5" -> 5 [] c = "6" -> 6 [] c = "7" -> 7 [] c = "8" -> 8 [] c = "9" -> 9

IsPriceChar_unsigned(c) == c \in Digits \/ c = "."

\* the characters re.sub(r'[^\d\.\-]', '', text) keeps
IsPriceChar(c) == IsDigit(c) \/ c = "." \/ c = "-"

RECURSIVE Pow10(_)
Pow10(k) == IF k = 0 THEN 1 ELSE 10 * Pow10(k - 1)

\* the whole number a string of digits writes
RECURSIVE DigitsValue(_)
DigitsValue(ds) ==
    IF ds = <<>> THEN 0
    ELSE 10 * DigitsValue(SubSeq(ds, 1, Len(ds) - 1)) + DigitValue(ds[Len(ds)])

\* float(s) on a string of digits, "." and "-": [-] digits [. [digits]] or
\* [-] . digits is a number, anything else raises ValueError.
float(s) ==
    LET neg == s # <<>> /\ s[1] = "-"
        body == IF neg THEN Tail(s) ELSE s
        dots == {i \in 1..Len(body) : body[i] = "."}
        digits == SelectSeq(body, IsDigit)
        decimals == IF dots = {} THEN 0
                    ELSE Len(body) - (CHOOSE i \in dots : TRUE)
    IN  IF /\ \A i \in 1..Len(body) : body[i] # "-"
           /\ Cardinality(dots) <= 1
           /\ digits # <<>>
        THEN Rat((IF neg THEN -1 ELSE 1) * DigitsValue(digits), Pow10(decimals))
        ELSE ValueError

_extract_price_uncaught(text) ==
    IF text = <<>> THEN Num(0)
    ELSE float(SelectSeq(text, IsPriceChar))

_extract_price(text) ==
    IF text = <<>> THEN Num(0)
    ELSE LET cleaned_text == SelectSeq(text, IsPriceChar)
         IN  IF Raised(float(cleaned_text)) THEN Num(0) ELSE float(cleaned_text)

parse_quantity_or_zero(qty_text) ==
    LET digits == SelectSeq(qty_text, IsDigit)
    IN  IF digits = <<>> THEN 0 ELSE DigitsValue(digits)

\* int(re.sub(r'[^\d]', '', qty_text) or 1)
parse_quantity(qty_text) ==
    LET digits == SelectSeq(qty_text, IsDigit)
    IN  IF digits = <<>> THEN 1 ELSE DigitsValue(digits)

----------------------------------------------------------------------------
(* The response of the expense analysis, field by field *)

\* A field is [type, text]: type is field.get('Type', {}).get('Text') and
\* text is the 'Text' of its 'ValueDetection'; either may be missing.
None == "<None>"

Missing == <<"<missing>">>

NoField == [type |-> None, text |-> Missing]

Get(text, default) == IF text = Missing THEN default ELSE text

SummaryTypes == {"VENDOR_NAME", "RECEIPT_DATE", "SUBTOTAL", "TAX", "OTHER", None}

LineItemTypes == {"ITEM", "PRICE", "QUANTITY", "OTHER", None}

\* the texts a field of the response may carry: "", "Tea", "$2", "-1", "0"
Texts == {<<>>, <<"T", "e", "a">>, <<"$", "2">>, <<"-", "1">>, <<"0">>}

FieldTexts == Texts \cup {Missing}

----------------------------------------------------------------------------
(* Receipt *)

NewReceipt ==
    [items |-> <<>>, date |-> <<>>, restaurant_name |-> <<>>,
     subtotal |-> Num(0), tax |-> Num(0), tip |-> Num(0)]

total(self) == FAdd(FAdd(self.subtotal, self.tax), self.tip)

add_item(self, item) == [self EXCEPT !.items = Append(@, item)]

\* The inner loop of get_person_totals (lines 56-59) from position j of
\* item.assigned_to, on the dict person_totals built so far.
RECURSIVE AddShares(_, _, _)
AddShares(person_totals, item, j) ==
    IF j > Len(item.assigned_to) THEN person_totals
    ELSE LET person == item.assigned_to[j]
             pt0 == IF person \in DOMAIN person_totals THEN person_totals
                    ELSE person_totals @@ (person :> Num(0))
             pt1 == [pt0 EXCEPT ![person] = FAdd(@, price_per_person(item))]
         IN  AddShares(pt1, item, j + 1)

\* The outer loop of get_person_totals (lines 55-59) from item i.
RECURSIVE SumItemCosts(_, _, _)
SumItemCosts(person_totals, items, i) ==
    IF i > Len(items) THEN person_totals
    ELSE SumItemCosts(AddShares(person_totals, items[i], 1), items, i + 1)

AddSurcharge(self, person_totals) ==
    [person \in DOMAIN person_totals |->
        FAdd(person_totals[person],
             FMul(FAdd(self.tax, self.tip),
                  FDiv(person_totals[person], self.subtotal)))]

AddSurcharge_taxonly(self, person_totals) ==
    [person \in DOMAIN person_totals |->
        FAdd(person_totals[person],
             FMul(self.tax, FDiv(person_totals[person], self.subtotal)))]

DistributeTaxTip_taxonly(self, person_totals) ==
    IF FPos(self.subtotal) THEN AddSurcharge_taxonly(self, person_totals)
    ELSE person_totals

DistributeTaxTip_unguarded(self, person_totals) ==
    IF self.subtotal[1] >= 0 THEN AddSurcharge(self, person_totals)
    ELSE person_totals

DistributeTaxTip_reconciled(self, person_totals) ==
    IF FPos(self.subtotal)
    THEN AddSurcharge([self EXCEPT !.subtotal = SumOver(person_totals, DOMAIN person_totals)],
                      person_totals)
    ELSE person_totals

\* Lines 61-67: distribute tax and tip proportionally.
DistributeTaxTip(self, person_totals) ==
    IF FPos(self.subtotal) THEN AddSurcharge(self, person_totals)
    ELSE person_totals

get_person_totals_everyone(self) ==
    DistributeTaxTip(self, SumItemCosts([p \in People |-> Num(0)], self.items, 1))

get_person_totals(self) ==
    DistributeTaxTip(self, SumItemCosts(<<>>, self.items, 1))

----------------------------------------------------------------------------
(* SpecSplit: a receipt whose totals are set, to which items are added and *)
(* whose items are assigned to and unassigned from people.                 *)

\* lines 208-213: the session before anything is loaded
NoSession ==
    /\ has_receipt = FALSE
    /\ people = <<>>
    /\ current_step = 1

Idle ==
    /\ NoSession
    /\ pc = "idle"
    /\ item_name = <<>>
    /\ item_price = Num(0)
    /\ item_quantity = 1
    /\ field = NoField
    /\ ndocs = 0
    /\ nsummary = 0
    /\ nlineitems = 0
    /\ nfields = 0

InitSplit ==
    /\ \E s \in -1..MaxSubtotal, t \in Taxes, p \in Tips :
           receipt = [NewReceipt EXCEPT !.subtotal = Num(s), !.tax = Num(t), !.tip = Num(p)]
    /\ Idle

AddItem(name, price, quantity) ==
    /\ Len(receipt.items) < MaxItems
    /\ receipt' = add_item(receipt, ReceiptItem(name, Num(price), quantity))
    /\ UNCHANGED <<parser_vars, session_vars>>

AssignTo(i, person) ==
    /\ i \in 1..Len(receipt.items)
    /\ receipt' = [receipt EXCEPT !.items[i] = assign_to(@, person)]
    /\ UNCHANGED <<parser_vars, session_vars>>

UnassignFrom(i, person) ==
    /\ i \in 1..Len(receipt.items)
    /\ receipt' = [receipt EXCEPT !.items[i] = unassign_from(@, person)]
    /\ UNCHANGED <<parser_vars, session_vars>>

NextSplit ==
    \/ \E m \in Menu : AddItem(m[1], m[2], m[3])
    \/ \E i \in 1..MaxItems, person \in People : AssignTo(i, person)
    \/ \E i \in 1..MaxItems, person \in People : UnassignFrom(i, person)

SpecSplit == InitSplit /\ [][NextSplit]_vars

----------------------------------------------------------------------------
(* SpecParse: ReceiptParser.parse_textract_response, reading the response  *)
(* one field at a time.  pc is "docs" at the head of the document loop,    *)
(* "summary" in a document's summary fields, "lineitems" between the line  *)
(* items of a document, "fields" in the fields of a line item, "done" once *)
(* the receipt is returned and "raised" if an exception leaves the method. *)
(* A missing 'ExpenseDocuments', 'SummaryFields', 'LineItemGroups',        *)
(* 'LineItems' or 'LineItemExpenseFields' is an empty loop; the groups of  *)
(* a document carry no state, so their line items follow one another.      *)

InitParse ==
    /\ NoSession
    /\ receipt = NewReceipt
    /\ pc = "docs"
    /\ item_name = <<>>
    /\ item_price = Num(0)
    /\ item_quantity = 1
    /\ field = NoField
    /\ ndocs = 0
    /\ nsummary = 0
    /\ nlineitems = 0
    /\ nfields = 0

\* line 107: the next document of the response
BeginDoc ==
    /\ UNCHANGED session_vars
    /\ pc = "docs"
    /\ ndocs < MaxDocs
    /\ pc' = "summary"
    /\ ndocs' = ndocs + 1
    /\ UNCHANGED <<receipt, item_name, item_price, item_quantity, field,
                   nsummary, nlineitems, nfields>>

\* lines 111-120: what one summary field does to the receipt
ReadSummaryField(self, f) ==
    CASE f.type = "VENDOR_NAME" -> [self EXCEPT !.restaurant_name = Get(f.text, <<>>)]
      [] f.type = "RECEIPT_DATE" -> [self EXCEPT !.date = Get(f.text, <<>>)]
      [] f.type = "SUBTOTAL" ->
            [self EXCEPT !.subtotal = _extract_price(Get(f.text, <<"0", ".", "0">>))]
      [] f.type = "TAX" ->
            [self EXCEPT !.tax = _extract_price(Get(f.text, <<"0", ".", "0">>))]
      [] OTHER -> self

ReceiptRaised(self) == Raised(self.subtotal) \/ Raised(self.tax)

\* lines 110-120: one summary field
SummaryField(f) ==
    /\ UNCHANGED session_vars
    /\ pc = "summary"
    /\ nsummary < MaxSummaryFields
    /\ nsummary' = nsummary + 1
    /\ field' = f
    /\ IF ReceiptRaised(ReadSummaryField(receipt, f))
       THEN pc' = "raised" /\ UNCHANGED receipt
       ELSE pc' = pc /\ receipt' = ReadSummaryField(receipt, f)
    /\ UNCHANGED <<item_name, item_price, item_quantity, ndocs, nlineitems, nfields>>

\* lines 126-129: the next line item, with its defaults
BeginLineItem ==
    /\ UNCHANGED session_vars
    /\ pc \in {"summary", "lineitems"}
    /\ nlineitems < MaxLineItems
    /\ nlineitems' = nlineitems + 1
    /\ item_name' = <<>>
    /\ item_price' = Num(0)
    /\ item_quantity' = 1
    /\ nfields' = 0
    /\ field' = NoField
    /\ pc' = "fields"
    /\ UNCHANGED <<receipt, ndocs, nsummary>>

\* lines 132-143: one field of the line item
LineItemField(f) ==
    /\ UNCHANGED session_vars
    /\ pc = "fields"
    /\ nfields < MaxFields
    /\ nfields' = nfields + 1
    /\ field' = f
    /\ CASE f.type = "ITEM" ->
              /\ item_name' = Get(f.text, <<>>)
              /\ UNCHANGED <<item_price, item_quantity, pc>>
         [] f.type = "PRICE" ->
              LET price == _extract_price(Get(f.text, <<"0", ".", "0">>))
              IN  IF Raised(price)
                  THEN pc' = "raised" /\ UNCHANGED <<item_name, item_price, item_quantity>>
                  ELSE item_price' = price /\ UNCHANGED <<item_name, item_quantity, pc>>
         [] f.type = "QUANTITY" ->
              /\ item_quantity' = parse_quantity(Get(f.text, <<"1">>))
              /\ UNCHANGED <<item_name, item_price, pc>>
         [] OTHER -> UNCHANGED <<item_name, item_price, item_quantity, pc>>
    /\ UNCHANGED <<receipt, ndocs, nsummary, nlineitems>>

KeepItem_nonnegative(name, price) == name # <<>> /\ price[1] >= 0

\* line 145: "if item_name and item_price > 0"
KeepItem(name, price) == name # <<>> /\ FPos(price)

\* lines 146-150
AddLineItem(self, name, price, quantity) ==
    add_item(self, ReceiptItem(name, price, quantity))

\* lines 145-150: the line item is complete.  field and the three locals are
\* not read again before they are next assigned (lines 127-129, 132).
EndLineItem ==
    /\ UNCHANGED session_vars
    /\ pc = "fields"
    /\ pc' = "lineitems"
    /\ receipt' = IF KeepItem(item_name, item_price)
                  THEN AddLineItem(receipt, item_name, item_price, item_quantity)
                  ELSE receipt
    /\ field' = NoField
    /\ UNCHANGED <<item_name, item_price, item_quantity, ndocs, nsummary, nlineitems, nfields>>

\* the document has no more summary fields and no more line items
EndDoc ==
    /\ UNCHANGED session_vars
    /\ pc \in {"summary", "lineitems"}
    /\ pc' = "docs"
    /\ field' = NoField
    /\ UNCHANGED <<receipt, item_name, item_price, item_quantity,
                   ndocs, nsummary, nlineitems, nfields>>

\* sum(item.price for item in receipt.items)
RECURSIVE sum_prices(_, _, _)
sum_prices(acc, items, i) ==
    IF i > Len(items) THEN acc
    ELSE sum_prices(FAdd(acc, items[i].price), items, i + 1)

RECURSIVE sum_line_totals(_, _, _)
sum_line_totals(acc, items, i) ==
    IF i > Len(items) THEN acc
    ELSE sum_line_totals(FAdd(acc, FMul(items[i].price, Num(items[i].quantity))), items, i + 1)

FallbackSubtotal_times_quantity(self) ==
    IF FIsZero(self.subtotal) /\ self.items # <<>>
    THEN [self EXCEPT !.subtotal = sum_line_totals(Num(0), self.items, 1)]
    ELSE self

\* lines 152-154: "If subtotal wasn't found, calculate it from items"
FallbackSubtotal(self) ==
    IF FIsZero(self.subtotal) /\ self.items # <<>>
    THEN [self EXCEPT !.subtotal = sum_prices(Num(0), self.items, 1)]
    ELSE self

\* lines 152-156: no more documents
Return ==
    /\ UNCHANGED session_vars
    /\ pc = "docs"
    /\ pc' = "done"
    /\ receipt' = FallbackSubtotal(receipt)
    /\ UNCHANGED <<item_name, item_price, item_quantity, field,
                   ndocs, nsummary, nlineitems, nfields>>

NextParse ==
    \/ BeginDoc
    \/ \E t \in SummaryTypes, x \in FieldTexts : SummaryField([type |-> t, text |-> x])
    \/ BeginLineItem
    \/ \E t \in LineItemTypes, x \in FieldTexts : LineItemField([type |-> t, text |-> x])
    \/ EndLineItem
    \/ EndDoc
    \/ Return

SpecParse == InitParse /\ [][NextParse]_vars

----------------------------------------------------------------------------
(* SpecText: the first field of a line item (lines 127-143), its text any  *)
(* string over TextChars up to MaxTextLen or one of the longer Samples.    *)

TextChars == {"0", "2", ".", "-", "x"}

\* "$12.99", "1,234.56", "N/A", "-5.00", "2x", "abc"
Samples ==
    { <<"$", "1", "2", ".", "9", "9">>,
      <<"1", ",", "2", "3", "4", ".", "5", "6">>,
      <<"N", "/", "A">>,
      <<"-", "5", ".", "0", "0">>,
      <<"2", "x">>,
      <<"a", "b", "c">> }

AllTexts == UNION {[1..n -> TextChars] : n \in 0..MaxTextLen} \cup Samples

InitText ==
    /\ NoSession
    /\ receipt = NewReceipt
    /\ pc = "fields"
    /\ item_name = <<>>
    /\ item_price = Num(0)
    /\ item_quantity = 1
    /\ field = NoField
    /\ ndocs = 1
    /\ nsummary = 0
    /\ nlineitems = 1
    /\ nfields = 0

ReadText(f) ==
    /\ nfields = 0
    /\ LineItemField(f)

NextText ==
    \E t \in LineItemTypes, x \in AllTexts \cup {Missing} :
        ReadText([type |-> t, text |-> x])

SpecText == InitText /\ [][NextText]_vars

----------------------------------------------------------------------------
(* SpecSession: main(), one user action at a time.  Each action is the     *)
(* script run the action triggers together with the rerun it asks for; a   *)
(* run that shows step 3 sets the tip from the tip widgets, which are left *)
(* at their defaults ("Percentage", 15).  A checkbox shows whether its     *)
(* person is assigned (value=is_assigned), so ticking or clearing one is   *)
(* one assign_to or unassign_from.  The receipt is the test receipt; the   *)
(* step-1 forms, which touch neither the people nor the assignments, are   *)
(* left out.  Steps 2, 3 and 4 are only ever shown with a receipt, and     *)
(* steps 3 and 4 with somebody in people, so the "go back" warnings of     *)
(* lines 364-368, 424-428 and 508-512 have no action; "Yes, Continue       *)
(* Anyway" (line 499) sits inside the branch of another button and is      *)
(* never shown in the run its own click triggers, so it has none either.   *)

DefaultTipPercentage == 15

Dollars(cents) == Rat(cents, 100)

create_mock_receipt ==
    LET r0 == [NewReceipt EXCEPT !.restaurant_name = "Test Restaurant",
                                 !.date = "2025-03-06",
                                 !.subtotal = Dollars(4500),
                                 !.tax = Dollars(360)]
        r1 == add_item(r0, ReceiptItem("Burger", Dollars(1299), 1))
        r2 == add_item(r1, ReceiptItem("Pizza", Dollars(1550), 1))
        r3 == add_item(r2, ReceiptItem("Salad", Dollars(899), 1))
    IN  add_item(r3, ReceiptItem("Drink", Dollars(399), 2))

\* lines 436-442: what showing step `step` does to the receipt
Render(step, has, ppl, self) ==
    IF step = 3 /\ has /\ ppl # <<>>
    THEN [self EXCEPT !.tip = FMul(self.subtotal,
                                   FDiv(Num(DefaultTipPercentage), Num(100)))]
    ELSE self

InitSession ==
    /\ NoSession
    /\ receipt = NewReceipt
    /\ pc = "idle"
    /\ item_name = <<>>
    /\ item_price = Num(0)
    /\ item_quantity = 1
    /\ field = NoField
    /\ ndocs = 0
    /\ nsummary = 0
    /\ nlineitems = 0
    /\ nfields = 0

\* lines 236-240: a sidebar navigation button
Nav(i) ==
    /\ i <= (IF current_step > 1 THEN current_step ELSE 1)
    /\ current_step' = i
    /\ receipt' = Render(i, has_receipt, people, receipt)
    /\ UNCHANGED <<parser_vars, has_receipt, people>>

\* lines 244-249: "Load Test Data"
LoadTestData ==
    /\ has_receipt' = TRUE
    /\ receipt' = Render(current_step, TRUE, people, create_mock_receipt)
    /\ UNCHANGED <<parser_vars, people, current_step>>

\* lines 358-360: "Continue to Add People"
ContinueToPeople ==
    /\ current_step = 1
    /\ has_receipt
    /\ current_step' = 2
    /\ UNCHANGED <<parser_vars, receipt, has_receipt, people>>

\* lines 381-383: the remove button of person i (people.pop(i); the receipt
\* is not touched)
RemovePerson(i) ==
    /\ current_step = 2
    /\ has_receipt
    /\ i \in 1..Len(people)
    /\ people' = SubSeq(people, 1, i - 1) \o SubSeq(people, i + 1, Len(people))
    /\ UNCHANGED <<parser_vars, receipt, has_receipt, current_step>>

\* lines 403-405 from name k of new_people
RECURSIVE AppendNew(_, _, _)
AppendNew(ppl, new_people, k) ==
    IF k > Len(new_people) THEN ppl
    ELSE AppendNew(IF ~In(new_people[k], ppl) THEN Append(ppl, new_people[k]) ELSE ppl,
                   new_people, k + 1)

\* lines 392-395: "Add"
AddPerson(new_person) ==
    /\ current_step = 2
    /\ has_receipt
    /\ people' = AppendNew(people, <<new_person>>, 1)
    /\ UNCHANGED <<parser_vars, receipt, has_receipt, current_step>>

\* lines 400-406: "Add All"
AddAll(new_people) ==
    /\ current_step = 2
    /\ has_receipt
    /\ people' = AppendNew(people, new_people, 1)
    /\ UNCHANGED <<parser_vars, receipt, has_receipt, current_step>>

\* lines 411-413: "Back to Receipt"
BackToReceipt ==
    /\ current_step = 2
    /\ has_receipt
    /\ current_step' = 1
    /\ UNCHANGED <<parser_vars, receipt, has_receipt, people>>

\* lines 415-420: "Continue to Assign Items"
ContinueToAssign ==
    /\ current_step = 2
    /\ has_receipt
    /\ IF people # <<>>
       THEN /\ current_step' = 3
            /\ receipt' = Render(3, has_receipt, people, receipt)
       ELSE UNCHANGED <<current_step, receipt>>
    /\ UNCHANGED <<parser_vars, has_receipt, people>>

Step3 == current_step = 3 /\ has_receipt /\ people # <<>>

\* lines 454-462: the checkbox of item i and person j is ticked or cleared
ToggleCheckbox(i, j) ==
    /\ Step3
    /\ i \in 1..Len(receipt.items)
    /\ j \in 1..Len(people)
    /\ receipt' =
          [Render(3, has_receipt, people, receipt) EXCEPT !.items[i] =
              IF In(people[j], @.assigned_to) THEN unassign_from(@, people[j])
              ELSE assign_to(@, people[j])]
    /\ UNCHANGED <<parser_vars, session_vars>>

\* lines 474-478: "Assign All Unassigned Items"
AssignAllUnassigned(person_to_assign) ==
    /\ Step3
    /\ In(person_to_assign, people)
    /\ receipt' =
          [Render(3, has_receipt, people, receipt) EXCEPT !.items =
              [k \in 1..Len(@) |->
                  IF @[k].assigned_to = <<>> THEN assign_to(@[k], person_to_assign)
                  ELSE @[k]]]
    /\ UNCHANGED <<parser_vars, session_vars>>

\* lines 483-484 from person j of people
RECURSIVE AssignEveryone(_, _, _)
AssignEveryone(item, ppl, j) ==
    IF j > Len(ppl) THEN item
    ELSE AssignEveryone(assign_to(item, ppl[j]), ppl, j + 1)

\* lines 481-485: "Assign All Items to Everyone"
AssignAllToEveryone ==
    /\ Step3
    /\ receipt' =
          [Render(3, has_receipt, people, receipt) EXCEPT !.items =
              [k \in 1..Len(@) |-> AssignEveryone(@[k], people, 1)]]
    /\ UNCHANGED <<parser_vars, session_vars>>

\* lines 490-492: "Back to People"
BackToPeople ==
    /\ Step3
    /\ current_step' = 2
    /\ UNCHANGED <<parser_vars, receipt, has_receipt, people>>

\* lines 494-504: "Continue to Summary"
ContinueToSummary ==
    /\ Step3
    /\ IF \A k \in 1..Len(receipt.items) : receipt.items[k].assigned_to # <<>>
       THEN current_step' = 4
       ELSE UNCHANGED current_step
    /\ UNCHANGED <<parser_vars, receipt, has_receipt, people>>

\* lines 599-601: "Back to Assignments"
BackToAssignments ==
    /\ current_step = 4
    /\ has_receipt
    /\ current_step' = 3
    /\ receipt' = Render(3, has_receipt, people, receipt)
    /\ UNCHANGED <<parser_vars, has_receipt, people>>

\* lines 603-605, then 208-213: "Start Over"
StartOver ==
    /\ current_step = 4
    /\ has_receipt
    /\ has_receipt' = FALSE
    /\ people' = <<>>
    /\ current_step' = 1
    /\ receipt' = NewReceipt
    /\ UNCHANGED parser_vars

NextSession ==
    \/ \E i \in 1..4 : Nav(i)
    \/ LoadTestData
    \/ ContinueToPeople
    \/ \E i \in 1..Cardinality(People) : RemovePerson(i)
    \/ \E new_person \in People : AddPerson(new_person)
    \/ \E new_people \in [1..2 -> People] : AddAll(new_people)
    \/ BackToReceipt
    \/ ContinueToAssign
    \/ \E i \in 1..4, j \in 1..Cardinality(People) : ToggleCheckbox(i, j)
    \/ \E person_to_assign \in People : AssignAllUnassigned(person_to_assign)
    \/ AssignAllToEveryone
    \/ BackToPeople
    \/ ContinueToSummary
    \/ BackToAssignments
    \/ StartOver

SpecSession == InitSession /\ [][NextSession]_vars

----------------------------------------------------------------------------
(* What the claims about the split speak of, stated without the loops of   *)
(* get_person_totals.                                                      *)

AssignedSet(item) == Range(item.assigned_to)

RECURSIVE BaseFrom(_, _, _)
BaseFrom(self, person, i) ==
    IF i > Len(self.items) THEN Num(0)
    ELSE FAdd(IF person \in AssignedSet(self.items[i])
              THEN FDiv(self.items[i].price, Num(Cardinality(AssignedSet(self.items[i]))))
              ELSE Num(0),
              BaseFrom(self, person, i + 1))

\* base(p): over the items p is assigned to, price / number of assigned people
Base(self, person) == BaseFrom(self, person, 1)

RECURSIVE SumPricesFrom(_, _)
SumPricesFrom(items, i) ==
    IF i > Len(items) THEN Num(0)
    ELSE FAdd(items[i].price, SumPricesFrom(items, i + 1))

SumPrices(self) == SumPricesFrom(self.items, 1)

\* sum(d.values())
SumValues(f) == SumOver(f, DOMAIN f)

AllAssigned(self) ==
    \A i \in 1..Len(self.items) : self.items[i].assigned_to # <<>>

NoRaise(f) == \A k \in DOMAIN f : ~Raised(f[k])

Participants(self) ==
    UNION {AssignedSet(self.items[i]) : i \in 1..Len(self.items)}

Items == {receipt.items[i] : i \in 1..Len(receipt.items)}

\* base + (base / subtotal) * (tax + tip)
WithSurcharge(self, base) ==
    FAdd(base, FMul(FDiv(base, self.subtotal), FAdd(self.tax, self.tip)))

----------------------------------------------------------------------------
(* Claims about the split, checked under SpecSplit *)

\* C1: when every item is assigned to somebody, subtotal > 0 and subtotal is
\* the sum of the item prices, the per-person totals add up to total().
C1_SumEqualsTotal ==
    (/\ AllAssigned(receipt)
     /\ FPos(receipt.subtotal)
     /\ receipt.subtotal = SumPrices(receipt))
    => SumValues(get_person_totals(receipt)) = total(receipt)

C1_Witness ==
    /\ Len(receipt.items) = 2
    /\ AllAssigned(receipt)
    /\ receipt.subtotal = SumPrices(receipt)
    /\ FPos(FAdd(receipt.tax, receipt.tip))
    /\ AssignedSet(receipt.items[1]) = {"Alice", "Bob"}
    /\ receipt.items[1].price = Num(1)
    /\ receipt.items[2].assigned_to = <<"Bob">>
    /\ SumValues(get_person_totals(receipt)) = total(receipt)

C3_ProportionalSurcharge ==
    LET person_totals == get_person_totals(receipt)
    IN  FPos(receipt.subtotal)
        => \A p \in DOMAIN person_totals :
              person_totals[p] = WithSurcharge(receipt, Base(receipt, p))

C3_Witness ==
    /\ Len(receipt.items) = 2
    /\ FPos(receipt.subtotal)
    /\ receipt.subtotal # SumPrices(receipt)
    /\ FPos(FAdd(receipt.tax, receipt.tip))
    /\ receipt.items[1].quantity = 2
    /\ receipt.items[1].assigned_to = <<"Alice">>
    /\ AssignedSet(receipt.items[2]) = {"Alice", "Bob"}
    /\ get_person_totals(receipt)["Alice"] = WithSurcharge(receipt, Base(receipt, "Alice"))
    /\ Base(receipt, "Alice") =
           FAdd(receipt.items[1].price, FDiv(receipt.items[2].price, Num(2)))

\* C4: nothing in the split divides by zero, whatever the subtotal and the
\* assignments; with subtotal = 0 every participant gets exactly the base share.
C4_ZeroSubtotalNoSurcharge ==
    LET person_totals == get_person_totals(receipt)
    IN  /\ NoRaise(person_totals)
        /\ \A item \in Items : ~Raised(price_per_person(item))
        /\ FIsZero(receipt.subtotal)
           => \A p \in DOMAIN person_totals : person_totals[p] = Base(receipt, p)

C4_Witness ==
    /\ FIsZero(receipt.subtotal)
    /\ FPos(receipt.tax)
    /\ FPos(receipt.tip)
    /\ Len(receipt.items) = 2
    /\ receipt.items[1].assigned_to = <<>>
    /\ price_per_person(receipt.items[1]) = Num(0)
    /\ AssignedSet(receipt.items[2]) = {"Alice", "Bob"}
    /\ get_person_totals(receipt)["Alice"] = FDiv(receipt.items[2].price, Num(2))

\* C5: the keys of get_person_totals() are exactly the people assigned to at
\* least one item.
C5_KeysAreAssignedPeople ==
    DOMAIN get_person_totals(receipt) = Participants(receipt)

C5_Witness ==
    /\ Len(receipt.items) = 2
    /\ receipt.items[1].assigned_to = <<"Alice">>
    /\ receipt.items[2].assigned_to = <<"Alice">>
    /\ "Bob" \notin DOMAIN get_person_totals(receipt)
    /\ DOMAIN get_person_totals(receipt) = {"Alice"}

\* C6: price_per_person() is price / (number of people now assigned) when
\* somebody is assigned and 0 when nobody is.
C6_PricePerPerson ==
    \A item \in Items :
        price_per_person(item) =
            IF AssignedSet(item) = {} THEN Num(0)
            ELSE FDiv(item.price, Num(Cardinality(AssignedSet(item))))

C6_Witness ==
    /\ Len(receipt.items) = 2
    /\ receipt.items[1].assigned_to = <<"Bob", "Alice">>
    /\ receipt.items[1].price = Num(3)
    /\ price_per_person(receipt.items[1]) = Rat(3, 2)
    /\ receipt.items[2].assigned_to = <<>>
    /\ price_per_person(receipt.items[2]) = Num(0)

NoDuplicates(list) ==
    \A i, j \in 1..Len(list) : list[i] = list[j] => i = j

\* C7: assign_to(p) on an item p is assigned to changes nothing, so nobody is
\* listed twice; unassign_from(p) on an item p is not assigned to changes
\* nothing; after unassign_from(p), p is not assigned.
C7_Idempotent ==
    \A item \in Items :
        /\ NoDuplicates(item.assigned_to)
        /\ \A p \in People :
              /\ In(p, item.assigned_to) => assign_to(item, p) = item
              /\ assign_to(assign_to(item, p), p) = assign_to(item, p)
              /\ In(p, assign_to(item, p).assigned_to)
              /\ ~In(p, item.assigned_to) => unassign_from(item, p) = item
              /\ ~In(p, unassign_from(item, p).assigned_to)
              /\ unassign_from(unassign_from(item, p), p) = unassign_from(item, p)

C7_Witness ==
    /\ Len(receipt.items) = 1
    /\ receipt.items[1].assigned_to = <<"Bob", "Alice">>
    /\ assign_to(receipt.items[1], "Alice") = receipt.items[1]
    /\ unassign_from(receipt.items[1], "Bob").assigned_to = <<"Alice">>
    /\ unassign_from(unassign_from(receipt.items[1], "Bob"), "Bob").assigned_to = <<"Alice">>

----------------------------------------------------------------------------
(* Claims about the parser, checked under SpecParse *)

Tea == <<"T", "e", "a">>

\* the item a line item with these three values becomes
Parsed(name, price, quantity) ==
    [name |-> name, price |-> price, quantity |-> quantity, assigned_to |-> <<>>]

C8_ItemsValid ==
    \A i \in 1..Len(receipt.items) :
        receipt.items[i].name # <<>> /\ receipt.items[i].price[1] > 0

\* the texts of the response that give no name, and no price above 0
C8_FieldsRead ==
    (pc = "fields" /\ nfields > 0) =>
        /\ (field.type = "ITEM" /\ field.text \in {Missing, <<>>}) => item_name = <<>>
        /\ (field.type = "PRICE"
              /\ field.text \in {Missing, <<>>, Tea, <<"-", "1">>, <<"0">>})
           => item_price[1] <= 0

C8_Step ==
    IF pc = "fields" /\ pc' = "lineitems"
    THEN receipt'.items =
            IF item_name = <<>> \/ item_price[1] <= 0 THEN receipt.items
            ELSE receipt.items \o <<Parsed(item_name, item_price, item_quantity)>>
    ELSE receipt'.items = receipt.items

\* C8: every item of the parsed receipt has a non-empty name and a price > 0;
\* a line item with an empty or missing ITEM text or a PRICE that parses to
\* <= 0 is dropped whatever its other fields, and a line item that passes is
\* appended after the items before it, at the moment it is complete.
C8_DiscardRule ==
    [](C8_ItemsValid /\ C8_FieldsRead) /\ [][C8_Step]_vars

\* a line item named "Tea" with price -1 has just been dropped, after one
\* that was kept
C8_Witness ==
    /\ pc = "lineitems"
    /\ nlineitems = 2
    /\ nfields = 3
    /\ item_name = Tea
    /\ item_price = Num(-1)
    /\ item_quantity = 2
    /\ receipt.items = <<Parsed(<<"$", "2">>, Num(2), 1)>>

C9_Step ==
    (pc = "docs" /\ pc' = "done") =>
        /\ receipt'.items = receipt.items
        /\ receipt'.subtotal =
              IF receipt.subtotal = Num(0) /\ Len(receipt.items) >= 1
              THEN SumPrices(receipt)
              ELSE receipt.subtotal

\* C9: when the last document is done, a subtotal of exactly 0 becomes the sum
\* of the prices of the items added (quantity not multiplied in) if there is
\* an item; any other subtotal, and a 0 subtotal without items, is returned as
\* it is.
C9_SubtotalFallback == [][C9_Step]_vars

\* two items of price 2, one with quantity 2, and no subtotal read: 4
C9_Witness ==
    /\ pc = "done"
    /\ Len(receipt.items) = 2
    /\ receipt.items[1].price = Num(2)
    /\ receipt.items[2].price = Num(2)
    /\ receipt.items[2].quantity = 2
    /\ receipt.subtotal = Num(4)

Unreadable == {Missing, <<>>, Tea}

\* C10: no exception leaves parse_textract_response and it can always go on to
\* return; a line item starts from name "", price 0, quantity 1, and a field
\* whose text is missing, empty or no number leaves or sets these defaults.
C10_NeverRaises ==
    /\ pc # "raised"
    /\ pc # "done" => ENABLED (EndLineItem \/ EndDoc \/ Return)
    /\ ~Raised(item_price) /\ ~Raised(receipt.subtotal) /\ ~Raised(receipt.tax)
    /\ (pc = "fields" /\ nfields = 0)
       => (item_name = <<>> /\ item_price = Num(0) /\ item_quantity = 1)
    /\ (pc = "fields" /\ nfields > 0) =>
          /\ (field.type = "ITEM" /\ field.text = Missing) => item_name = <<>>
          /\ (field.type = "PRICE" /\ field.text \in Unreadable) => item_price = Num(0)
          /\ (field.type = "QUANTITY" /\ field.text \in Unreadable) => item_quantity = 1
    /\ (pc = "summary" /\ field # NoField) =>
          /\ (field.type = "VENDOR_NAME" /\ field.text = Missing)
             => receipt.restaurant_name = <<>>
          /\ (field.type = "RECEIPT_DATE" /\ field.text = Missing) => receipt.date = <<>>
          /\ (field.type = "SUBTOTAL" /\ field.text \in Unreadable)
             => receipt.subtotal = Num(0)
          /\ (field.type = "TAX" /\ field.text \in Unreadable) => receipt.tax = Num(0)

\* the third field of a line item is a QUANTITY reading "Tea": the line item
\* still has the name "", the price 0 and the quantity 1 it started with
C10_Witness ==
    /\ pc = "fields"
    /\ nlineitems = 2
    /\ nfields = 3
    /\ field = [type |-> "QUANTITY", text |-> Tea]
    /\ item_name = <<>>
    /\ item_price = Num(0)
    /\ item_quantity = 1

----------------------------------------------------------------------------
(* Claims about the parsing of texts, checked under SpecText *)

\* the text without the characters that are no digit, "." or "-"
RECURSIVE Kept(_)
Kept(text) ==
    IF text = <<>> THEN <<>>
    ELSE (IF Head(text) \in Digits \cup {".", "-"} THEN <<Head(text)>> ELSE <<>>)
         \o Kept(Tail(text))

Unsigned(s) == IF s # <<>> /\ s[1] = "-" THEN Tail(s) ELSE s

\* the places k of an unsigned string b such that b is k digits, then
\* nothing or a "." and digits only, with a digit somewhere
WholeDigits(b) ==
    {k \in 0..Len(b) :
        /\ \A i \in 1..k : b[i] \in Digits
        /\ \/ k = Len(b) /\ k >= 1
           \/ /\ k < Len(b)
              /\ b[k + 1] = "."
              /\ \A i \in (k + 2)..Len(b) : b[i] \in Digits
              /\ Len(b) >= 2}

\* an optional "-", then digits with at most one "." among or next to them
WellFormedNumber(s) == WholeDigits(Unsigned(s)) # {}

\* digit i of b weighs 10^(k - i) before the point and 10^-(i - k - 1) after
RECURSIVE PlaceValues(_, _, _)
PlaceValues(b, k, i) ==
    IF i > Len(b) THEN Num(0)
    ELSE FAdd(IF i <= k THEN Num(DigitValue(b[i]) * Pow10(k - i))
              ELSE IF i = k + 1 THEN Num(0)
              ELSE Rat(DigitValue(b[i]), Pow10(i - k - 1)),
              PlaceValues(b, k, i + 1))

DecimalValue(s) ==
    LET b == Unsigned(s)
        v == PlaceValues(b, CHOOSE k \in WholeDigits(b) : TRUE, 1)
    IN  IF b = s THEN v ELSE FMul(Num(-1), v)

ExpectedPrice(text) ==
    IF WellFormedNumber(Kept(text)) THEN DecimalValue(Kept(text)) ELSE Num(0)

PriceRead == pc = "fields" /\ nfields = 1 /\ field.type = "PRICE" /\ field.text # Missing

\* C11: the price read from a text is the decimal value of what is left of the
\* text once every character that is no digit, "." or "-" is removed, a leading
\* "-" making it negative, and 0 when nothing or no number is left; no
\* exception leaves.  "$12.99" gives 12.99, "1,234.56" 1234.56, "" and "N/A" 0,
\* "-5.00" -5.
C11_CurrencyText ==
    /\ pc # "raised"
    /\ ~Raised(item_price)
    /\ PriceRead =>
          /\ item_price = ExpectedPrice(field.text)
          /\ field.text = <<"$", "1", "2", ".", "9", "9">> => item_price = Rat(1299, 100)
          /\ field.text = <<"1", ",", "2", "3", "4", ".", "5", "6">>
             => item_price = Rat(123456, 100)
          /\ field.text = <<>> => item_price = Num(0)
          /\ field.text = <<"N", "/", "A">> => item_price = Num(0)
          /\ field.text = <<"-", "5", ".", "0", "0">> => item_price = Num(-5)

C11_Witness ==
    /\ PriceRead
    /\ field.text = <<"-", ".", "2">>
    /\ item_price = Rat(-2, 10)

QuantityRead ==
    pc = "fields" /\ nfields = 1 /\ field.type = "QUANTITY" /\ field.text # Missing

\* the digits of a text, in order
RECURSIVE DigitsOf(_)
DigitsOf(text) ==
    IF text = <<>> THEN <<>>
    ELSE (IF Head(text) \in Digits THEN <<Head(text)>> ELSE <<>>) \o DigitsOf(Tail(text))

\* C12: the quantity read from a QUANTITY text is the whole number its digits
\* write, the other characters removed, and 1 when it has no digit ("2x"
\* gives 2, "" and "abc" give 1); without a QUANTITY text the quantity is 1.
C12_QuantityText ==
    /\ QuantityRead =>
          /\ item_quantity =
                IF DigitsOf(field.text) = <<>> THEN 1
                ELSE PlaceValues(DigitsOf(field.text), Len(DigitsOf(field.text)), 1)[1]
          /\ field.text = <<"2", "x">> => item_quantity = 2
          /\ field.text = <<>> => item_quantity = 1
          /\ field.text = <<"a", "b", "c">> => item_quantity = 1
    /\ (pc = "fields" /\ (field.type # "QUANTITY" \/ field.text = Missing))
       => item_quantity = 1

C12_Witness ==
    /\ QuantityRead
    /\ field.text = <<"2", ".", "0">>
    /\ item_quantity = 20

----------------------------------------------------------------------------
(* Claim about the quantity of parsed items, checked under SpecParse *)

\* C13: every item parse_textract_response adds to the receipt has a
\* quantity of at least 1, whatever the text of its QUANTITY field.
C13_QuantityPositive ==
    \A i \in 1..Len(receipt.items) : receipt.items[i].quantity >= 1

----------------------------------------------------------------------------
(* Claim about the session, checked under SpecSession *)

\* C14: after any sequence of user actions, everybody assigned to an item of
\* the session's receipt is in the session's people list, so every key of
\* get_person_totals() shown in the summary is one of the people.
C14_AssignedArePeople ==
    has_receipt =>
        /\ \A k \in 1..Len(receipt.items) :
              AssignedSet(receipt.items[k]) \subseteq Range(people)
        /\ current_step = 4 => DOMAIN get_person_totals(receipt) \subseteq Range(people)

\* the second half alone: the summary shows somebody who is not in people
C14_SummaryKeysArePeople ==
    (has_receipt /\ current_step = 4)
    => DOMAIN get_person_totals(receipt) \subseteq Range(people)

====
